---- MODULE Spec2Model ----
(***************************************************************************)
(* Model of the two ledger pallets of the HODL repository:                 *)
(*   pallets/krypt           the minimal ledger (mint, transfer_from,      *)
(*                           total_issuance)                  -> Spec      *)
(*   pallets/kryptokurrency  genesis build and the imbalance types         *)
(*                                                            -> SpecKK    *)
(* Option<T> values are modelled as sequences: <<>> is None, <<v>> is      *)
(* Some(v).                                                                *)
(***************************************************************************)
EXTENDS Integers, Sequences, FiniteSets, TLC

\* ---------------------------------------------------------------- bounds
\* largest value of the (generic, unsigned) Balance type in the model
BalanceMax == 4
\* largest value of kryptokurrency's Balance type in the model
BalanceMaxKK == 2

\* kryptokurrency: imbalance values created in one run
MaxImbalances == 3
\* kryptokurrency: longest genesis seed list
MaxSeeds == 2

\* ------------------------------------------------------------- constants
\* krypt: #[pallet::constant] type MaxTokenSupply
MaxTokenSupply == 3

AccountId == {"a1", "a2", "a3"}
NoAccount == "-"
Balance == 0..BalanceMax
BalanceKK == 0..BalanceMaxKK

\* RawOrigin of frame_system: Root, Signed(who), None
Origins ==
  {[kind |-> "Root", who |-> NoAccount], [kind |-> "None", who |-> NoAccount]}
    \cup {[kind |-> "Signed", who |-> a] : a \in AccountId}

\* <T::Lookup as StaticLookup>::Source: every account has a source that
\* resolves to it; one source resolves to nothing
Unresolvable == "unresolvable"
LookupSource == AccountId \cup {Unresolvable}

VARIABLES
  BalanceToAccount,  \* krypt: StorageMap AccountId -> Balance (Option per key)
  TotalIssued,       \* krypt: StorageValue Balance, ValueQuery
  events,            \* krypt: the events the last call deposited
  call,              \* the last dispatched call, its arguments and result
  pre,               \* storage as it was when the last call was dispatched
  AccountStore,      \* kryptokurrency: StorageMap AccountId -> AccountData
  TotalIssuance,     \* kryptokurrency: StorageValue Option<Balance>
  genesis,           \* kryptokurrency: "pending", "built", "aborted", "absent"
  live,              \* kryptokurrency: the imbalance values currently held
  made,              \* kryptokurrency: number of imbalance values created
  tally,             \* kryptokurrency: magnitudes created / cancelled / dropped
  op                 \* kryptokurrency: the last operation and its result

kvars == <<BalanceToAccount, TotalIssued, events, call, pre>>
kkvars == <<AccountStore, TotalIssuance, genesis, live, made, tally, op>>
vars == <<kvars, kkvars>>

\* ------------------------------------------------------------ arithmetic
\* `max` is the largest value of the Balance type the operands belong to
checked_add(a, b, max) == IF a + b > max THEN <<>> ELSE <<a + b>>
checked_sub(a, b) == IF a < b THEN <<>> ELSE <<a - b>>
saturating_add(a, b, max) == IF a + b > max THEN max ELSE a + b
saturating_sub(a, b) == IF a < b THEN 0 ELSE a - b

\* ------------------------------------------------------- krypt: storage
\* StorageMap::try_get: Some(v) when the key is stored, None otherwise
try_get(store, k) == store[k]
\* getter get_balance_of (ValueQuery): the default when the key is absent
get_balance_of(store, k) == IF store[k] = <<>> THEN 0 ELSE store[k][1]
insert(store, k, v) == [store EXCEPT ![k] = <<v>>]

MintedNewSupply(amount) ==
  [name |-> "MintedNewSupply", from |-> NoAccount, to |-> NoAccount, amount |-> amount]
TransferSuccess(from, to, amount) ==
  [name |-> "TransferSuccess", from |-> from, to |-> to, amount |-> amount]
TotalIssuedEvent(v) ==
  [name |-> "TotalIssued", from |-> NoAccount, to |-> NoAccount, amount |-> v]

\* ------------------------------------------------------- krypt: helpers
\* mutant: any authenticated origin passes the root check
ensure_root_AnySigned(origin) == origin.kind # "None"
ensure_root(origin) == origin.kind = "Root"
ensure_signed(origin) == origin.kind = "Signed"

\* mutant: the new supply is computed with a wrapping addition
does_adding_overflow_maxtokensupply_Wrapping(total, amount) ==
  LET new_supply == (total + amount) % (BalanceMax + 1) IN
    IF new_supply <= MaxTokenSupply THEN "Ok"
    ELSE "MintCausingTotalSupplyOverflow"

\* mutant: the amount alone, not the new supply, is compared with the cap
does_adding_overflow_maxtokensupply_AmountOnly(total, amount) ==
  LET new_supply == checked_add(total, amount, BalanceMax) IN
    IF new_supply = <<>> THEN "MintTypeOverflow"
    ELSE IF amount <= MaxTokenSupply THEN "Ok"
    ELSE "MintCausingTotalSupplyOverflow"

does_adding_overflow_maxtokensupply(total, amount) ==
  LET new_supply == checked_add(total, amount, BalanceMax) IN
    IF new_supply = <<>> THEN "MintTypeOverflow"
    ELSE IF new_supply[1] <= MaxTokenSupply THEN "Ok"
    ELSE "MintCausingTotalSupplyOverflow"

\* mutant: the amount replaces the total instead of being added to it
include_mint_amount_Overwrite(total, amount) == <<amount>>
\* the new TotalIssued, or <<>> when the expect() panics
include_mint_amount(total, amount) == checked_add(amount, total, BalanceMax)

\* mutant: any stored balance is taken as sufficient
has_sufficient_funds_AnyStored(store, s, amount) ==
  LET b == try_get(store, s) IN
    IF b # <<>> THEN TRUE ELSE FALSE

has_sufficient_funds(store, s, amount) ==
  LET b == try_get(store, s) IN
    IF b # <<>> /\ b[1] >= amount THEN TRUE ELSE FALSE

\* mutant: the recipient is credited but the sender's entry is not written
transfer_unchecked_NoDebit(store, sender, to, amount) ==
  LET previous_sender_balance == get_balance_of(store, sender)
      new_sender_balance == checked_sub(previous_sender_balance, amount)
  IN IF new_sender_balance = <<>> THEN <<>>
     ELSE <<insert(store, to, saturating_add(get_balance_of(store, to), amount, BalanceMax))>>

\* the new map, or <<>> when the expect() panics (before any write)
transfer_unchecked(store, sender, to, amount) ==
  LET previous_sender_balance == get_balance_of(store, sender)
      new_sender_balance == checked_sub(previous_sender_balance, amount)
  IN IF new_sender_balance = <<>> THEN <<>>
     ELSE <<insert(insert(store, sender, new_sender_balance[1]), to, amount)>>

lookup(src) == IF src = Unresolvable THEN <<>> ELSE <<src>>

\* --------------------------------------------------- krypt: dispatchables
\* a call's result, the storage it leaves and the events it deposited
Outcome(result, store, total, deposited) ==
  [result |-> result, store |-> store, total |-> total, events |-> deposited]

mint_call(origin, amount, benefactor, store, total) ==
  IF ~ensure_root(origin) THEN Outcome("BadOrigin", store, total, <<>>)
  ELSE IF does_adding_overflow_maxtokensupply(total, amount) # "Ok"
  THEN Outcome("MintCausingTotalSupplyOverflow", store, total, <<>>)
  ELSE
    LET previous_balance == get_balance_of(store, benefactor)
        final_balance == saturating_add(previous_balance, amount, BalanceMax)
        store1 == insert(store, benefactor, final_balance)
        total1 == include_mint_amount(total, amount)
    IN IF total1 = <<>> THEN Outcome("Panic", store1, total, <<>>)
       ELSE Outcome("Ok", store1, total1[1], <<MintedNewSupply(amount)>>)

transfer_from_call(origin, to, amount, store, total) ==
  IF ~ensure_signed(origin) THEN Outcome("BadOrigin", store, total, <<>>)
  ELSE
    LET sender == origin.who IN
      IF ~has_sufficient_funds(store, sender, amount)
      THEN Outcome("InsufficientFunds", store, total, <<>>)
      ELSE IF lookup(to) = <<>> THEN Outcome("LookupError", store, total, <<>>)
      ELSE
        LET dest == lookup(to)[1]
            store1 == transfer_unchecked(store, sender, dest, amount)
        IN IF store1 = <<>> THEN Outcome("Panic", store, total, <<>>)
           ELSE Outcome("Ok", store1[1], total, <<TransferSuccess(sender, dest, amount)>>)

total_issuance_call(origin, store, total) ==
  IF ~ensure_signed(origin) THEN Outcome("BadOrigin", store, total, <<>>)
  ELSE Outcome("Ok", store, total, <<TotalIssuedEvent(total)>>)

Snapshot == [store |-> BalanceToAccount, total |-> TotalIssued]

Commit(o) ==
  /\ BalanceToAccount' = o.store
  /\ TotalIssued' = o.total
  /\ events' = o.events
  /\ pre' = Snapshot

NoCall == [op |-> "none", origin |-> [kind |-> "None", who |-> NoAccount],
           target |-> NoAccount, amount |-> 0, result |-> "none"]

KryptInit ==
  /\ BalanceToAccount = [a \in AccountId |-> <<>>]
  /\ TotalIssued = 0
  /\ events = <<>>
  /\ call = NoCall
  /\ pre = [store |-> [a \in AccountId |-> <<>>], total |-> 0]

mint ==
  /\ UNCHANGED kkvars
  /\ \E origin \in Origins, amount \in Balance, benefactor \in AccountId :
       LET o == mint_call(origin, amount, benefactor, BalanceToAccount, TotalIssued)
       IN /\ Commit(o)
          /\ call' = [op |-> "mint", origin |-> origin, target |-> benefactor,
                      amount |-> amount, result |-> o.result]

transfer_from ==
  /\ UNCHANGED kkvars
  /\ \E origin \in Origins, to \in LookupSource, amount \in Balance :
       LET o == transfer_from_call(origin, to, amount, BalanceToAccount, TotalIssued)
       IN /\ Commit(o)
          /\ call' = [op |-> "transfer_from", origin |-> origin, target |-> to,
                      amount |-> amount, result |-> o.result]

total_issuance ==
  /\ UNCHANGED kkvars
  /\ \E origin \in Origins :
       LET o == total_issuance_call(origin, BalanceToAccount, TotalIssued)
       IN /\ Commit(o)
          /\ call' = [op |-> "total_issuance", origin |-> origin, target |-> NoAccount,
                      amount |-> 0, result |-> o.result]

\* ================================================ kryptokurrency: genesis
AccountData(free, locked) == [free |-> free, locked |-> locked]
AccountData_usable(d) == d.free
AccountData_total(d) == saturating_add(d.free, d.locked, BalanceMaxKK)
AccountData_locked(d) == d.locked

Seed == AccountId \X BalanceKK
SeedLists == UNION {[1..n -> Seed] : n \in 0..MaxSeeds}
OptionBalance == {<<>>} \cup {<<v>> : v \in BalanceKK}

\* impl Default for GenesisConfig
GenesisConfig_default ==
  LET runtime_max_token == MaxTokenSupply
      max_tokens == IF runtime_max_token = 0 THEN <<>> ELSE <<runtime_max_token>>
  IN [balances |-> <<>>, max_token_supply |-> max_tokens]

\* `acc + curr` on the primitive Balance: with overflow checks the addition
\* panics (<<>>), without them it wraps
plus(a, b, overflow_checks) ==
  IF a + b <= BalanceMaxKK THEN <<a + b>>
  ELSE IF overflow_checks THEN <<>> ELSE <<(a + b) % (BalanceMaxKK + 1)>>

RECURSIVE fold_balances(_, _, _)
fold_balances(acc, balances, overflow_checks) ==
  IF acc = <<>> \/ balances = <<>> THEN acc
  ELSE fold_balances(plus(acc[1], Head(balances)[2], overflow_checks),
                     Tail(balances), overflow_checks)

RECURSIVE insert_all(_, _)
insert_all(store, balances) ==
  IF balances = <<>> THEN store
  ELSE insert_all([store EXCEPT ![Head(balances)[1]] = <<AccountData(Head(balances)[2], 0)>>],
                  Tail(balances))

\* GenesisBuild::build: the storage it leaves, or a panic that writes nothing
build_outcome(config, overflow_checks, store, issuance) ==
  LET total_issuance_at_genesis == fold_balances(<<0>>, config.balances, overflow_checks)
      max_tokens_at_genesis ==
        IF config.max_token_supply # <<>> THEN config.max_token_supply[1] ELSE 0
      endowed_accounts == {config.balances[i][1] : i \in 1..Len(config.balances)}
  IN IF total_issuance_at_genesis = <<>>
     THEN [result |-> "panic: overflow", store |-> store, issuance |-> issuance]
     ELSE IF ~(total_issuance_at_genesis[1] <= max_tokens_at_genesis)
     THEN [result |-> "panic: exceeds MaxTokenSupply", store |-> store, issuance |-> issuance]
     ELSE IF ~(Cardinality(endowed_accounts) = Len(config.balances))
     THEN [result |-> "panic: duplicate", store |-> store, issuance |-> issuance]
     ELSE [result |-> "Ok", store |-> insert_all(store, config.balances),
           issuance |-> total_issuance_at_genesis]

\* ============================================== kryptokurrency: imbalances
Sign == {"Positive", "Negative"}
Opposite(sign) == IF sign = "Positive" THEN "Negative" ELSE "Positive"

\* the closure handed to TotalIssuance::mutate by Drop for PositiveImbalance:
\* `key` is what it leaves in the storage slot, `ret` the value it returns
PositiveImbalance_drop_closure(key, magnitude) ==
  IF key # <<>>
  THEN LET total == key[1]
           discarded == saturating_add(total, magnitude, BalanceMaxKK)
       IN [key |-> key, ret |-> total]
  ELSE [key |-> key, ret |-> MaxTokenSupply]

\* the closure handed to TotalIssuance::mutate by Drop for NegativeImbalance
NegativeImbalance_drop_closure(key, magnitude) ==
  IF key # <<>>
  THEN LET total == key[1]
           discarded == saturating_sub(total, magnitude)
       IN [key |-> key, ret |-> total]
  ELSE [key |-> key, ret |-> 0]

\* StorageValue::mutate writes the slot back as the closure left it; drop()
\* ignores the closure's return value
drop(sign, magnitude, issuance) ==
  IF sign = "Positive" THEN PositiveImbalance_drop_closure(issuance, magnitude).key
  ELSE NegativeImbalance_drop_closure(issuance, magnitude).key

min(a, b) == IF a <= b THEN a ELSE b
\* split: the magnitudes of the two returned values
split_amounts(magnitude, amount) ==
  LET first == min(magnitude, amount)
      second == magnitude - first
  IN <<first, second>>
\* mutant: other is forgotten without being added to self
merge_amount_KeepSelf(self, other) == self
merge_amount(self, other) == saturating_add(self, other, BalanceMaxKK)
subsume_amount(self, other) == saturating_add(self, other, BalanceMaxKK)
\* mutant: the Equal arm is missing, equal magnitudes fall into Same
offset_result_NoEqual(self, other) ==
  IF self < other THEN [kind |-> "Other", amount |-> other - self]
  ELSE [kind |-> "Same", amount |-> self - other]

\* mutant: the remainder is handed back with the wrong variant
offset_result_Swapped(self, other) ==
  IF self < other THEN [kind |-> "Same", amount |-> other - self]
  ELSE IF self > other THEN [kind |-> "Other", amount |-> self - other]
  ELSE [kind |-> "None", amount |-> 0]

\* SameOrOther: Same / Other carry the magnitude of the new imbalance
offset_result(self, other) ==
  IF self < other THEN [kind |-> "Other", amount |-> other - self]
  ELSE IF self > other THEN [kind |-> "Same", amount |-> self - other]
  ELSE [kind |-> "None", amount |-> 0]

\* the imbalance values some scope currently owns, as a bag of
\* <<sign, magnitude>>
Kinds == Sign \X BalanceKK
Held(k) == live[k] > 0
Put(l, sign, magnitude) == [l EXCEPT ![<<sign, magnitude>>] = @ + 1]
Take(l, sign, magnitude) == [l EXCEPT ![<<sign, magnitude>>] = @ - 1]
RECURSIVE MagnitudeOver(_, _, _)
MagnitudeOver(l, sign, S) ==
  IF S = {} THEN 0
  ELSE LET m == CHOOSE x \in S : TRUE
       IN m * l[<<sign, m>>] + MagnitudeOver(l, sign, S \ {m})
\* sum of the magnitudes held with the given sign
HeldMagnitude(sign) == MagnitudeOver(live, sign, BalanceKK)
NoneHeld == \A k \in Kinds : live[k] = 0
Running == genesis \in {"built", "absent"}

NoOp == [name |-> "none", sign |-> "-", self |-> 0, other |-> 0, result |-> "none",
         out |-> <<>>, before |-> <<>>, split_of |-> <<>>]
\* the last operation: the receiver's sign and magnitude, the argument (an
\* amount or the other value's magnitude), the result and the magnitudes of
\* the values it returned, and TotalIssuance before it ran; a merge that joins
\* the two pieces the preceding split returned carries that split's
\* <<magnitude, amount>> in split_of
Op(name, sign, self, other, result, out) ==
  [name |-> name, sign |-> sign, self |-> self, other |-> other, result |-> result,
   out |-> out, before |-> TotalIssuance, split_of |-> <<>>]
\* self and other are the two values the last operation, a split, returned
PiecesOfLastSplit(sign, self, other) ==
  /\ op.name = "split" /\ op.sign = sign
  /\ (op.out = <<self, other>> \/ op.out = <<other, self>>)

EmptyTally ==
  [created |-> [s \in Sign |-> 0], cancelled |-> 0, dropRun |-> [s \in Sign |-> 0]]

KKInit ==
  /\ AccountStore = [a \in AccountId |-> <<>>]
  /\ TotalIssuance = <<>>
  /\ genesis = "pending"
  /\ live = [k \in Kinds |-> 0]
  /\ made = 0
  /\ tally = EmptyTally
  /\ op = NoOp

\* GenesisBuild::build on a configuration of the chain spec
build ==
  /\ genesis = "pending"
  /\ \E balances \in SeedLists, max_token_supply \in OptionBalance,
        overflow_checks \in BOOLEAN :
       LET config == [balances |-> balances, max_token_supply |-> max_token_supply]
           o == build_outcome(config, overflow_checks, AccountStore, TotalIssuance)
       IN /\ AccountStore' = o.store
          /\ TotalIssuance' = o.issuance
          /\ genesis' = IF o.result = "Ok" THEN "built" ELSE "aborted"
          /\ op' = [name |-> "build", config |-> config,
                    overflow_checks |-> overflow_checks, result |-> o.result]
  /\ UNCHANGED <<live, made, tally, kvars>>

\* a runtime whose chain spec carries no genesis config for the pallet
no_genesis ==
  /\ genesis = "pending"
  /\ genesis' = "absent"
  /\ UNCHANGED <<AccountStore, TotalIssuance, live, made, tally, op, kvars>>

\* PositiveImbalance::new / NegativeImbalance::new
new ==
  /\ Running /\ made < MaxImbalances
  /\ \E sign \in Sign, amount \in BalanceKK \ {0} :
       /\ live' = Put(live, sign, amount)
       /\ tally' = [tally EXCEPT !.created[sign] = @ + amount]
       /\ op' = Op("new", sign, amount, 0, "Ok", <<amount>>)
  /\ made' = made + 1
  /\ UNCHANGED <<AccountStore, TotalIssuance, genesis, kvars>>

\* Imbalance::zero (and Default::default)
zero ==
  /\ Running /\ made < MaxImbalances
  /\ \E sign \in Sign :
       /\ live' = Put(live, sign, 0)
       /\ op' = Op("zero", sign, 0, 0, "Ok", <<0>>)
  /\ made' = made + 1
  /\ UNCHANGED <<AccountStore, TotalIssuance, genesis, tally, kvars>>

\* Imbalance::drop_zero (and TryDrop::try_drop): Ok(()) lets `self` fall out
\* of scope inside the call, Err(self) hands it back
drop_zero ==
  /\ Running
  /\ \E k \in Kinds :
       /\ Held(k)
       /\ IF k[2] = 0
          THEN /\ live' = Take(live, k[1], k[2])
               /\ TotalIssuance' = drop(k[1], k[2], TotalIssuance)
               /\ tally' = [tally EXCEPT !.dropRun[k[1]] = @ + k[2]]
               /\ op' = Op("drop_zero", k[1], k[2], 0, "Ok", <<>>)
          ELSE /\ op' = Op("drop_zero", k[1], k[2], 0, "Err", <<k[2]>>)
               /\ UNCHANGED <<live, TotalIssuance, tally>>
  /\ UNCHANGED <<AccountStore, genesis, made, kvars>>

\* Imbalance::split: the original is forgotten, two new values are returned
split ==
  /\ Running /\ made + 2 <= MaxImbalances
  /\ \E k \in Kinds, amount \in BalanceKK :
       /\ Held(k)
       /\ LET parts == split_amounts(k[2], amount) IN
            /\ live' = Put(Put(Take(live, k[1], k[2]), k[1], parts[1]), k[1], parts[2])
            /\ op' = Op("split", k[1], k[2], amount, "Ok", parts)
  /\ made' = made + 2
  /\ UNCHANGED <<AccountStore, TotalIssuance, genesis, tally, kvars>>

\* two distinct held values of the same sign
HeldPair(k, o) == Held(k) /\ Held(o) /\ k[1] = o[1] /\ (k = o => live[k] >= 2)

\* Imbalance::merge: `other` is forgotten, `self` is returned
merge ==
  /\ Running
  /\ \E k \in Kinds, o \in Kinds :
       /\ HeldPair(k, o)
       /\ LET m == merge_amount(k[2], o[2]) IN
            /\ live' = Put(Take(Take(live, k[1], k[2]), o[1], o[2]), k[1], m)
            /\ op' = [Op("merge", k[1], k[2], o[2], "Ok", <<m>>) EXCEPT
                        !.split_of = IF PiecesOfLastSplit(k[1], k[2], o[2])
                                     THEN <<op.self, op.other>> ELSE <<>>]
  /\ UNCHANGED <<AccountStore, TotalIssuance, genesis, made, tally, kvars>>

\* Imbalance::subsume: `other` is forgotten, `self` is updated in place
subsume ==
  /\ Running
  /\ \E k \in Kinds, o \in Kinds :
       /\ HeldPair(k, o)
       /\ LET m == subsume_amount(k[2], o[2]) IN
            /\ live' = Put(Take(Take(live, k[1], k[2]), o[1], o[2]), k[1], m)
            /\ op' = Op("subsume", k[1], k[2], o[2], "Ok", <<m>>)
  /\ UNCHANGED <<AccountStore, TotalIssuance, genesis, made, tally, kvars>>

\* Imbalance::offset: `self` and `other` are taken by value and not forgotten,
\* so Drop::drop runs on both when the call returns (parameters are dropped in
\* reverse order of declaration); the remainder is a new value
offset ==
  /\ Running
  /\ \E k \in Kinds, o \in Kinds :
       /\ Held(k) /\ Held(o) /\ o[1] = Opposite(k[1])
       /\ LET r == offset_result(k[2], o[2])
              taken == Take(Take(live, k[1], k[2]), o[1], o[2])
          IN /\ made + (IF r.kind = "None" THEN 0 ELSE 1) <= MaxImbalances
             /\ live' = IF r.kind = "Same" THEN Put(taken, k[1], r.amount)
                        ELSE IF r.kind = "Other" THEN Put(taken, o[1], r.amount)
                        ELSE taken
             /\ made' = made + (IF r.kind = "None" THEN 0 ELSE 1)
             /\ TotalIssuance' = drop(k[1], k[2], drop(o[1], o[2], TotalIssuance))
             /\ tally' = [tally EXCEPT
                            !.cancelled = @ + min(k[2], o[2]),
                            !.dropRun[k[1]] = @ + k[2],
                            !.dropRun[o[1]] = @ + o[2]]
             /\ op' = Op("offset", k[1], k[2], o[2], r.kind,
                         IF r.kind = "None" THEN <<>> ELSE <<r.amount>>)
  /\ UNCHANGED <<AccountStore, genesis, kvars>>

\* Imbalance::peek
peek ==
  /\ Running
  /\ \E k \in Kinds : Held(k) /\ op' = Op("peek", k[1], k[2], 0, "Ok", <<k[2]>>)
  /\ UNCHANGED <<AccountStore, TotalIssuance, genesis, live, made, tally, kvars>>

\* a held value reaches the end of its owning scope: Drop::drop runs
scope_exit ==
  /\ Running
  /\ \E k \in Kinds :
       /\ Held(k)
       /\ live' = Take(live, k[1], k[2])
       /\ TotalIssuance' = drop(k[1], k[2], TotalIssuance)
       /\ tally' = [tally EXCEPT !.dropRun[k[1]] = @ + k[2]]
       /\ op' = Op("drop", k[1], k[2], 0, "Ok", <<>>)
  /\ UNCHANGED <<AccountStore, genesis, made, kvars>>

\* ------------------------------------------------------- specifications
Init == KryptInit /\ KKInit
Next == mint \/ transfer_from \/ total_issuance
Spec == Init /\ [][Next]_vars

NextGenesis == build \/ no_genesis
SpecGenesis == Init /\ [][NextGenesis]_vars

\* the imbalance operations start from a chain whose genesis has run: the
\* pallet's genesis was built from the default configuration or from one that
\* endows a single account, or the chain spec has no genesis for the pallet
RunningConfigs ==
  {GenesisConfig_default}
    \cup {[balances |-> <<<<"a1", v>>>>, max_token_supply |-> <<BalanceMaxKK>>] :
            v \in BalanceKK \ {0}}
InitKK ==
  /\ KryptInit
  /\ live = [k \in Kinds |-> 0]
  /\ made = 0
  /\ tally = EmptyTally
  /\ op = NoOp
  /\ \/ /\ genesis = "absent"
        /\ AccountStore = [a \in AccountId |-> <<>>]
        /\ TotalIssuance = <<>>
     \/ \E config \in RunningConfigs :
          LET o == build_outcome(config, TRUE, [a \in AccountId |-> <<>>], <<>>) IN
            /\ o.result = "Ok"
            /\ genesis = "built"
            /\ AccountStore = o.store
            /\ TotalIssuance = o.issuance

NextKK ==
  \/ new \/ zero \/ drop_zero \/ split \/ merge
  \/ subsume \/ offset \/ peek \/ scope_exit
SpecKK == InitKK /\ [][NextKK]_vars

\* ================================================================ krypt
\* sum of the balances of all accounts (absent accounts count as zero)
RECURSIVE SumOver(_, _)
SumOver(store, S) ==
  IF S = {} THEN 0
  ELSE LET a == CHOOSE x \in S : TRUE
       IN get_balance_of(store, a) + SumOver(store, S \ {a})
SumBalances(store) == SumOver(store, AccountId)

IsMint == call.op = "mint"
IsTransfer == call.op = "transfer_from"
Caller == call.origin.who
BalanceBefore(a) == get_balance_of(pre.store, a)
BalanceAfter(a) == get_balance_of(BalanceToAccount, a)
StorageUntouched == BalanceToAccount = pre.store /\ TotalIssued = pre.total
OthersUnchanged(S) == \A a \in AccountId \ S : BalanceToAccount[a] = pre.store[a]

\* C1: after every operation TotalIssued equals the sum of the balances of
\* all accounts (conservation).
C1_Conservation == TotalIssued = SumBalances(BalanceToAccount)

\* C2: TotalIssued never exceeds MaxTokenSupply, and a mint by root whose
\* amount would raise TotalIssued above MaxTokenSupply returns
\* MintCausingTotalSupplyOverflow and leaves TotalIssued and every balance
\* unchanged.
C2_CapInvariant ==
  /\ TotalIssued <= MaxTokenSupply
  /\ (IsMint /\ ensure_root(call.origin) /\ pre.total + call.amount > MaxTokenSupply)
       => (call.result = "MintCausingTotalSupplyOverflow" /\ StorageUntouched)
C2_Witness ==
  /\ IsMint /\ ensure_root(call.origin)
  /\ pre.total > 0 /\ call.amount <= MaxTokenSupply
  /\ pre.total + call.amount > MaxTokenSupply
  /\ call.result = "MintCausingTotalSupplyOverflow"

\* C3: a successful transfer_from with caller # to decreases the caller's
\* balance by exactly amount, increases to's balance by exactly amount
\* (whatever to held before), and leaves TotalIssued and all other accounts
\* unchanged.
C3_TransferExact ==
  (IsTransfer /\ call.result = "Ok" /\ Caller # call.target)
    => /\ BalanceAfter(Caller) = BalanceBefore(Caller) - call.amount
       /\ BalanceAfter(call.target) = BalanceBefore(call.target) + call.amount
       /\ TotalIssued = pre.total
       /\ OthersUnchanged({Caller, call.target})

\* C4: a self-transfer (to = caller) of an amount the caller's stored balance
\* covers succeeds and leaves the caller's balance as it was.
C4_SelfTransfer ==
  (IsTransfer /\ ensure_signed(call.origin) /\ call.target = Caller
     /\ pre.store[Caller] # <<>> /\ call.amount <= BalanceBefore(Caller))
    => (call.result = "Ok" /\ BalanceAfter(Caller) = BalanceBefore(Caller))

\* C5: when amount > balance(caller) (absent = zero) transfer_from fails with
\* InsufficientFunds, leaves every balance and TotalIssued unchanged and
\* deposits no event; every stored balance is a non-negative Balance.
C5_InsufficientFunds ==
  /\ \A a \in AccountId : BalanceToAccount[a] # <<>> => BalanceToAccount[a][1] \in Balance
  /\ (IsTransfer /\ ensure_signed(call.origin) /\ call.amount > BalanceBefore(Caller))
       => (call.result = "InsufficientFunds" /\ StorageUntouched /\ events = <<>>)
C5_Witness ==
  /\ IsTransfer /\ ensure_signed(call.origin)
  /\ BalanceBefore(Caller) > 0 /\ call.amount > BalanceBefore(Caller)
  /\ call.target \in AccountId \ {Caller}
  /\ call.result = "InsufficientFunds"

\* C6: a successful mint increases the beneficiary's balance and TotalIssued
\* by exactly amount, emits MintedNewSupply(amount) and leaves every other
\* account unchanged.
C6_MintExact ==
  (IsMint /\ call.result = "Ok")
    => /\ BalanceAfter(call.target) = BalanceBefore(call.target) + call.amount
       /\ TotalIssued = pre.total + call.amount
       /\ events = <<MintedNewSupply(call.amount)>>
       /\ OthersUnchanged({call.target})
C6_Witness ==
  /\ IsMint /\ call.result = "Ok" /\ call.amount > 0
  /\ BalanceBefore(call.target) > 0
  /\ BalanceAfter(call.target) = BalanceBefore(call.target) + call.amount

\* C7: a mint by root fails with MintTypeOverflow when TotalIssued + amount is
\* not representable in Balance, and with MintCausingTotalSupplyOverflow when
\* the sum is representable but exceeds MaxTokenSupply.
C7_MintErrors ==
  (IsMint /\ ensure_root(call.origin))
    => /\ (pre.total + call.amount > BalanceMax) => call.result = "MintTypeOverflow"
       /\ (pre.total + call.amount <= BalanceMax /\ pre.total + call.amount > MaxTokenSupply)
            => call.result = "MintCausingTotalSupplyOverflow"

\* C8: mint by a caller that is not root fails with an authorization error
\* and changes neither the balances nor TotalIssued and deposits no event.
C8_MintNotRoot ==
  (IsMint /\ call.origin.kind # "Root")
    => (call.result = "BadOrigin" /\ StorageUntouched /\ events = <<>>)
C8_Witness ==
  /\ IsMint /\ call.origin.kind = "Signed"
  /\ call.amount > 0 /\ pre.total + call.amount <= MaxTokenSupply
  /\ call.result = "BadOrigin"

\* ======================================================= kryptokurrency
\* C9: with TotalIssuance initialised, the end-of-scope drop of a
\* PositiveImbalance of magnitude m stores the saturating sum
\* TotalIssuance + m, and that of a NegativeImbalance the saturating
\* difference TotalIssuance - m.
C9_DropApplies ==
  (op.name = "drop" /\ op.before # <<>>)
    => TotalIssuance =
         <<IF op.sign = "Positive"
           THEN saturating_add(op.before[1], op.self, BalanceMaxKK)
           ELSE saturating_sub(op.before[1], op.self)>>

\* C10: once every remaining value has left scope, each created magnitude
\* was either cancelled against an opposite imbalance or had the automatic
\* effect run on it, exactly once: never both, never neither.
C10_ExactlyOnce ==
  NoneHeld =>
    \A s \in Sign : tally.created[s] = tally.cancelled + tally.dropRun[s]

\* ================================================================ krypt
\* C18: no value is created outside mint: in every reachable state the sum
\* of all balances is at most TotalIssued, no balance exceeds
\* MaxTokenSupply, and the saturating credit of a successful mint did not
\* saturate.
C18_NoValueCreated ==
  /\ SumBalances(BalanceToAccount) <= TotalIssued
  /\ \A a \in AccountId : BalanceAfter(a) <= MaxTokenSupply
  /\ (IsMint /\ call.result = "Ok")
       => BalanceBefore(call.target) + call.amount <= BalanceMax
C18_Witness ==
  /\ IsTransfer /\ call.result = "Ok" /\ call.amount > 0
  /\ BalanceBefore(call.target) > 0
  /\ SumBalances(BalanceToAccount) < TotalIssued

\* C19: transfer_from by a signed caller fails with InsufficientFunds only
\* when balance(caller) < amount, an account without a stored entry having
\* balance zero (so a transfer of 0 from a never-funded account succeeds).
C19_InsufficientOnlyWhenShort ==
  (IsTransfer /\ ensure_signed(call.origin) /\ call.result = "InsufficientFunds")
    => BalanceBefore(Caller) < call.amount

\* C20: no call of mint or transfer_from panics, and a call that does not
\* succeed has written nothing (no debit without credit, no balance credit
\* without the TotalIssued update).
C20_NoPanic ==
  /\ call.result # "Panic"
  /\ call.result # "Ok" => StorageUntouched
C20_Witness ==
  /\ IsTransfer /\ call.result = "Ok"
  /\ call.amount > 0 /\ call.amount = BalanceBefore(Caller)
  /\ TotalIssued = MaxTokenSupply

\* ======================================================= kryptokurrency
\* C11: offset of a PositiveImbalance and a NegativeImbalance of equal
\* magnitude (either as receiver) returns SameOrOther::None, hands back no
\* value, and leaves TotalIssuance as it was before the call.
C11_EqualOffset ==
  (op.name = "offset" /\ op.self = op.other)
    => (op.result = "None" /\ op.out = <<>> /\ TotalIssuance = op.before)
C11_Witness ==
  /\ op.name = "offset" /\ op.self = op.other /\ op.self > 0
  /\ op.before # <<>> /\ op.result = "None" /\ NoneHeld

\* C15: with TotalIssuance never set, the end-of-scope drop of a
\* PositiveImbalance leaves TotalIssuance = MaxTokenSupply and that of a
\* NegativeImbalance leaves TotalIssuance = 0.
C15_UninitializedSeeding ==
  (op.name = "drop" /\ op.before = <<>>)
    => TotalIssuance = <<IF op.sign = "Positive" THEN MaxTokenSupply ELSE 0>>

\* C16: offset of magnitudes a (receiver) and b returns Same with an
\* imbalance of the receiver's sign and magnitude a - b when a > b, Other
\* with an imbalance of the opposite sign and magnitude b - a when a < b;
\* the magnitude handed back is never negative.
C16_UnequalOffset ==
  (op.name = "offset")
    => /\ (op.self > op.other)
            => /\ op.result = "Same" /\ op.out = <<op.self - op.other>>
               /\ Held(<<op.sign, op.self - op.other>>)
       /\ (op.self < op.other)
            => /\ op.result = "Other" /\ op.out = <<op.other - op.self>>
               /\ Held(<<Opposite(op.sign), op.other - op.self>>)
       /\ \A i \in 1..Len(op.out) : op.out[i] \in BalanceKK
C16_Witness ==
  /\ op.name = "offset" /\ 0 < op.self /\ op.self < op.other
  /\ op.result = "Other" /\ Held(<<Opposite(op.sign), op.other - op.self>>)

\* C12: merging the two pieces returned by split(I, k), for any k (0 and
\* k above I's magnitude included), yields an imbalance of I's magnitude
\* whose end-of-scope effect on TotalIssuance is that of I.
C12_SplitMergeRoundTrip ==
  (op.name = "merge" /\ op.split_of # <<>>)
    => /\ op.out = <<op.split_of[1]>>
       /\ drop(op.sign, op.out[1], TotalIssuance)
            = drop(op.sign, op.split_of[1], TotalIssuance)
C12_Witness ==
  /\ op.name = "merge" /\ op.split_of # <<>>
  /\ 0 < op.split_of[1] /\ op.split_of[1] < op.split_of[2]
  /\ Held(<<op.sign, op.split_of[1]>>)

\* ============================================== kryptokurrency: genesis
IsBuild == op.name = "build"
\* the sum of the seed balances, as a number
RECURSIVE SeedSum(_)
SeedSum(balances) ==
  IF balances = <<>> THEN 0 ELSE Head(balances)[2] + SeedSum(Tail(balances))
HasDuplicate(balances) ==
  \E i, j \in 1..Len(balances) : i < j /\ balances[i][1] = balances[j][1]
\* the cap a configuration is held to: its override, else MaxTokenSupply
EffectiveCap(config) ==
  IF config.max_token_supply # <<>> THEN config.max_token_supply[1] ELSE MaxTokenSupply
NothingWritten ==
  AccountStore = [a \in AccountId |-> <<>>] /\ TotalIssuance = <<>>
RECURSIVE TotalOver(_, _)
TotalOver(store, S) ==
  IF S = {} THEN 0
  ELSE LET a == CHOOSE x \in S : TRUE
       IN (IF store[a] = <<>> THEN 0 ELSE AccountData_total(store[a][1]))
            + TotalOver(store, S \ {a})

\* C13: genesis build aborts and writes neither an account nor
\* TotalIssuance whenever the seed list names an account twice or the sum of
\* the seed balances exceeds the max supply, in whatever order the seeds come.
C13_GenesisRejection ==
  (IsBuild /\ (HasDuplicate(op.config.balances)
                 \/ SeedSum(op.config.balances) > EffectiveCap(op.config)))
    => (op.result # "Ok" /\ genesis = "aborted" /\ NothingWritten)

\* C14: when genesis build completes, every seeded account holds
\* AccountData with free = its seed balance and locked = 0, no other account
\* exists, and TotalIssuance is the sum of the seed balances, which is the sum
\* of all accounts' total().
C14_GenesisSuccess ==
  (IsBuild /\ op.result = "Ok")
    => LET balances == op.config.balances
           seeded == {balances[i][1] : i \in 1..Len(balances)}
       IN /\ \A i \in 1..Len(balances) :
               AccountStore[balances[i][1]] = <<AccountData(balances[i][2], 0)>>
          /\ \A a \in AccountId \ seeded : AccountStore[a] = <<>>
          /\ TotalIssuance = <<SeedSum(balances)>>
          /\ TotalIssuance = <<TotalOver(AccountStore, AccountId)>>

\* C17: genesis build accepts a duplicate-free seed list exactly when its sum
\* is at most the effective cap: the max_token_supply override if present,
\* otherwise the MaxTokenSupply constant.
C17_CapResolution ==
  (IsBuild /\ ~HasDuplicate(op.config.balances))
    => (op.result = "Ok" <=> SeedSum(op.config.balances) <= EffectiveCap(op.config))

====
